---------------------------- MODULE Spec2Model ----------------------------
(***************************************************************************)
(* semver-releaser: the EQL key=value parser (eql.Parse), the conventional *)
(* commit parser (ParseCommit), the bump determiner (determineBump), the   *)
(* release notes composer (makeReleaseText) and the driver (run).          *)
(*                                                                         *)
(* A Go string is modelled as a sequence of runes, each rune a one-rune    *)
(* TLA+ string; a Go map as a function whose DOMAIN is the key set.        *)
(***************************************************************************)
EXTENDS Integers, Sequences, FiniteSets, TLC

VARIABLES
    pc,          \* position of the program counter ("<function>.<place>")
    frame,       \* the function this behaviour entered first
    \* ---- eql.Parse
    str,         \* the input string
    idx,         \* rune position of the range loop (1-based; Len(str)+1 after it)
    s,           \* scan state
    isEscaping,
    quoteStyle,
    tmpKey,
    tmpValue,
    result,
    ret,         \* what Parse returned
    pairs,       \* the key/value pairs the input spells (input descriptor)
    style,       \* how the input spells them: raw, tight, spaced, quoted
    \* ---- Context
    Rules,       \* c.Rules
    Categories,  \* c.Categories
    Ignore,      \* c.Ignore
    Push,        \* c.Push
    \* ---- determineBump and makeReleaseText
    commits,     \* the commits parameter
    \* ---- determineBump
    ci,          \* position of the loop over commits (1-based)
    bang,
    hasBang,
    components,
    toBump,
    bumpKind,    \* what determineBump returned
    \* ---- makeReleaseText
    ri,          \* position of the loop over commits (1-based)
    categories,
    usesOther,
    others,
    output,
    visited,     \* the keys of c.Categories the last loop has visited
    releaseText, \* what makeReleaseText returned
    \* ---- run
    latestVersion,
    conventionals,
    excluded,
    li,          \* number of commits the log iterator has yielded
    major,
    minor,
    patch,
    nextVersion,
    versionOut,  \* the "::set-output name=version::" lines printed
    createdTags, \* tags created in the repository
    pushed,      \* tags pushed to the remote
    releases,    \* releases created on GitHub
    exit,        \* how run ended: running, returned, exit1, panic
    \* ---- ParseCommit
    input,       \* the msg argument of ParseCommit
    shape,       \* how msg was put together (input descriptor)
    parsed,      \* what ParseCommit returned
    \* ---- a caller that calls makeReleaseText or determineBump a second time
    calls,       \* number of calls that have returned before the current one
    lastText,    \* what the last call of makeReleaseText returned
    lastKind,    \* what the last call of determineBump returned
    lastCommits, \* the commits of the last call of determineBump
    lastComponents \* the rule names by severity, as the last call grouped them

eqlVars == <<str, idx, s, isEscaping, quoteStyle, tmpKey, tmpValue, result, ret, pairs, style>>

ctxVars == <<Rules, Categories, Ignore, Push>>

bumpVars == <<ci, bang, hasBang, components, toBump, bumpKind>>

notesVars == <<ri, categories, usesOther, others, output, visited, releaseText>>

runVars == <<latestVersion, conventionals, excluded, li, major, minor, patch, nextVersion,
             versionOut, createdTags, pushed, releases, exit>>

commitVars == <<input, shape, parsed>>

againVars == <<calls, lastText, lastKind, lastCommits, lastComponents>>

vars == <<pc, frame, eqlVars, ctxVars, commits, bumpVars, notesVars, runVars, commitVars,
          againVars>>

nonEqlVars == <<frame, ctxVars, commits, bumpVars, notesVars, runVars, commitVars,
                 againVars>>

nonBumpVars == <<frame, eqlVars, ctxVars, commits, notesVars, runVars, commitVars,
                 againVars>>

nonNotesVars == <<frame, eqlVars, ctxVars, commits, bumpVars, runVars, commitVars,
                 againVars>>

nonRunVars == <<frame, eqlVars, ctxVars, bumpVars, notesVars, commitVars,
                 againVars>>

nonCommitVars == <<frame, eqlVars, ctxVars, commits, bumpVars, notesVars, runVars,
                 againVars>>

(***************************************************************************)
(* Bounds of the model.                                                    *)
(***************************************************************************)
MaxLen == 5      \* longest raw input of eql.Parse, in runes
MaxPairs == 3    \* longest list of pairs spelled as an input of eql.Parse
MaxBumpCommits == 3  \* longest commit sequence given to determineBump
MaxNoteCommits == 2  \* longest commit sequence given to makeReleaseText
MaxLog == 2          \* most commits the log yields to run before the last release
MaxBodyLines == 2    \* most lines after the first line of a message given to ParseCommit
MaxRepeats == 1      \* most repeated calls of makeReleaseText or of determineBump
MaxReorderCommits == 2  \* longest commit sequence given to determineBump twice
MaxGap == 3          \* most newlines between the first line of a message and the next

(***************************************************************************)
(* Runes and strings.                                                      *)
(***************************************************************************)
SP == " "
EQ == "="
DQ == "\""
SQ == "'"
BS == "\\"
NL == "\n"

\* The number of bytes of a rune in the UTF-8 encoding of a Go string.
Utf8Len(r) == IF r = "é" THEN 2 ELSE 1

RECURSIVE ByteLen(_)
ByteLen(x) == IF x = <<>> THEN 0 ELSE Utf8Len(Head(x)) + ByteLen(Tail(x))

\* The i of "for i, r := range str" at the k-th rune: the byte offset of that rune.
ByteIndex(x, k) == ByteLen(SubSeq(x, 1, k - 1))

IsSpace(r) == r \in {SP, NL}

RECURSIVE TrimLeft(_)
TrimLeft(x) == IF x # <<>> /\ IsSpace(Head(x)) THEN TrimLeft(Tail(x)) ELSE x

RECURSIVE TrimRight(_)
TrimRight(x) ==
    IF x # <<>> /\ IsSpace(x[Len(x)]) THEN TrimRight(SubSeq(x, 1, Len(x) - 1)) ELSE x

TrimSpace(x) == TrimRight(TrimLeft(x))

\* strings.Split(x, sep) for a one-rune separator.
RECURSIVE Split(_, _)
Split(x, sep) ==
    IF \E i \in 1..Len(x) : x[i] = sep
    THEN LET i == CHOOSE i \in 1..Len(x) : x[i] = sep /\ \A j \in 1..(i - 1) : x[j] # sep IN
         <<SubSeq(x, 1, i - 1)>> \o Split(SubSeq(x, i + 1, Len(x)), sep)
    ELSE <<x>>

\* A map assignment that keeps the value of a key already present.
MapPut_KeepFirst(m, k, v) ==
    [x \in (DOMAIN m) \cup {k} |-> IF x \in DOMAIN m THEN m[x] ELSE v]

MapPut(m, k, v) == [x \in (DOMAIN m) \cup {k} |-> IF x = k THEN v ELSE m[x]]

EmptyMap == <<>>

(***************************************************************************)
(* eql.Parse                                                               *)
(***************************************************************************)
NoRet == [isNil |-> TRUE, m |-> EmptyMap, err |-> "", pos |-> 0]

\* pushAndReset without "tmpKey = tmpKey[:0]": the next key is appended to the last.
PushAndReset_KeepKey ==
    /\ result' = MapPut(result, TrimSpace(tmpKey), TrimSpace(tmpValue))
    /\ tmpKey' = tmpKey
    /\ tmpValue' = <<>>
    /\ isEscaping' = FALSE
    /\ s' = "stateKey"

PushAndReset ==
    /\ result' = MapPut(result, TrimSpace(tmpKey), TrimSpace(tmpValue))
    /\ tmpKey' = <<>>
    /\ tmpValue' = <<>>
    /\ isEscaping' = FALSE
    /\ s' = "stateKey"

\* One iteration of the range loop in Key state.
ParseKey ==
    /\ pc = "Parse.loop"
    /\ idx <= Len(str)
    /\ s = "stateKey"
    /\ LET r == str[idx] IN
       IF r = SP /\ Len(tmpKey) = 0
       THEN /\ idx' = idx + 1
            /\ UNCHANGED <<pc, s, tmpKey, ret>>
       ELSE IF r = EQ
       THEN IF Len(tmpKey) = 0
            THEN /\ ret' = [isNil |-> TRUE, m |-> EmptyMap,
                            err |-> "unexpected '='", pos |-> ByteIndex(str, idx) + 1]
                 /\ pc' = "Parse.return"
                 /\ UNCHANGED <<idx, s, tmpKey>>
            ELSE /\ s' = "stateValue"
                 /\ idx' = idx + 1
                 /\ UNCHANGED <<pc, tmpKey, ret>>
       ELSE /\ tmpKey' = Append(tmpKey, r)
            /\ idx' = idx + 1
            /\ UNCHANGED <<pc, s, ret>>
    /\ UNCHANGED <<str, isEscaping, quoteStyle, tmpValue, result, pairs, style>>
    /\ UNCHANGED nonEqlVars

\* One iteration of the range loop in Value state.
ParseValue ==
    /\ pc = "Parse.loop"
    /\ idx <= Len(str)
    /\ s = "stateValue"
    /\ idx' = idx + 1
    /\ LET r == str[idx] IN
       IF Len(tmpValue) = 0 /\ r = SP
       THEN UNCHANGED <<s, isEscaping, quoteStyle, tmpKey, tmpValue, result>>
       ELSE IF r = DQ \/ (r = SQ /\ Len(tmpValue) = 0)
       THEN /\ s' = "stateQuote"
            /\ quoteStyle' = r
            /\ UNCHANGED <<isEscaping, tmpKey, tmpValue, result>>
       ELSE IF r = SP
       THEN /\ PushAndReset
            /\ UNCHANGED quoteStyle
       ELSE /\ tmpValue' = Append(tmpValue, r)
            /\ UNCHANGED <<s, isEscaping, quoteStyle, tmpKey, result>>
    /\ UNCHANGED <<pc, str, ret, pairs, style>>
    /\ UNCHANGED nonEqlVars

\* One iteration of the range loop in Quote state.
ParseQuote ==
    /\ pc = "Parse.loop"
    /\ idx <= Len(str)
    /\ s = "stateQuote"
    /\ idx' = idx + 1
    /\ LET r == str[idx] IN
       IF r = BS
       THEN /\ isEscaping' = TRUE
            /\ UNCHANGED <<s, tmpKey, tmpValue, result>>
       ELSE IF isEscaping
       THEN /\ tmpValue' = (IF r # quoteStyle THEN Append(tmpValue, BS) ELSE tmpValue) \o <<r>>
            /\ isEscaping' = FALSE
            /\ UNCHANGED <<s, tmpKey, result>>
       ELSE IF r = quoteStyle
       THEN PushAndReset
       ELSE /\ tmpValue' = Append(tmpValue, r)
            /\ UNCHANGED <<s, isEscaping, tmpKey, result>>
    /\ UNCHANGED <<pc, str, quoteStyle, ret, pairs, style>>
    /\ UNCHANGED nonEqlVars

\* The end of Parse without the check of stateQuote: the pending pair is pushed.
ParseEnd_NoQuoteCheck ==
    /\ pc = "Parse.loop"
    /\ idx > Len(str)
    /\ pc' = "Parse.return"
    /\ IF s \in {"stateValue", "stateQuote"}
       THEN /\ result' = MapPut(result, TrimSpace(tmpKey), TrimSpace(tmpValue))
            /\ ret' = [isNil |-> FALSE, m |-> result', err |-> "", pos |-> 0]
            /\ UNCHANGED <<s, isEscaping, tmpKey, tmpValue>>
       ELSE /\ ret' = [isNil |-> FALSE, m |-> result, err |-> "", pos |-> 0]
            /\ UNCHANGED <<s, isEscaping, tmpKey, tmpValue, result>>
    /\ UNCHANGED <<str, idx, quoteStyle, pairs, style>>
    /\ UNCHANGED nonEqlVars

\* The end of Parse with a pending key pushed, with an empty value, in Key state.
ParseEnd_PushPendingKey ==
    /\ pc = "Parse.loop"
    /\ idx > Len(str)
    /\ pc' = "Parse.return"
    /\ IF s = "stateQuote"
       THEN /\ ret' = [isNil |-> TRUE, m |-> EmptyMap,
                       err |-> "unterminated quoted string", pos |-> 0]
            /\ UNCHANGED <<s, isEscaping, tmpKey, tmpValue, result>>
       ELSE IF s = "stateValue" \/ tmpKey # <<>>
       THEN /\ PushAndReset
            /\ ret' = [isNil |-> FALSE, m |-> result', err |-> "", pos |-> 0]
       ELSE /\ ret' = [isNil |-> FALSE, m |-> result, err |-> "", pos |-> 0]
            /\ UNCHANGED <<s, isEscaping, tmpKey, tmpValue, result>>
    /\ UNCHANGED <<str, idx, quoteStyle, pairs, style>>
    /\ UNCHANGED nonEqlVars

\* After the loop: the checks at the end of the input and the return.
ParseEnd ==
    /\ pc = "Parse.loop"
    /\ idx > Len(str)
    /\ pc' = "Parse.return"
    /\ IF s = "stateQuote"
       THEN /\ ret' = [isNil |-> TRUE, m |-> EmptyMap,
                       err |-> "unterminated quoted string", pos |-> 0]
            /\ UNCHANGED <<s, isEscaping, tmpKey, tmpValue, result>>
       ELSE IF s = "stateValue"
       THEN /\ PushAndReset
            /\ ret' = [isNil |-> FALSE, m |-> result', err |-> "", pos |-> 0]
       ELSE /\ ret' = [isNil |-> FALSE, m |-> result, err |-> "", pos |-> 0]
            /\ UNCHANGED <<s, isEscaping, tmpKey, tmpValue, result>>
    /\ UNCHANGED <<str, idx, quoteStyle, pairs, style>>
    /\ UNCHANGED nonEqlVars

Parse == ParseKey \/ ParseValue \/ ParseQuote \/ ParseEnd

(***************************************************************************)
(* Inputs of eql.Parse: every raw string over EqlRunes up to MaxLen runes, *)
(* and the three spellings of every list of up to MaxPairs pairs.          *)
(***************************************************************************)
EqlRunes == {"a", "é", SP, EQ, DQ, SQ, BS}

Words == {<<>>, <<"a">>, <<"é">>, <<"a", "é">>}

RawInputs == UNION {[1..n -> EqlRunes] : n \in 0..MaxLen}

PairLists == UNION {[1..n -> [k : Words, v : Words]] : n \in 0..MaxPairs}

SpellPair(st, p) ==
    CASE st = "tight" -> p.k \o <<EQ>> \o p.v
      [] st = "spaced" -> p.k \o <<SP, EQ, SP>> \o p.v
      [] st = "quoted" -> p.k \o <<SP, EQ, SP, DQ>> \o p.v \o <<DQ>>

RECURSIVE Spell(_, _)
Spell(st, ps) ==
    IF ps = <<>> THEN <<>>
    ELSE IF Len(ps) = 1 THEN SpellPair(st, ps[1])
    ELSE SpellPair(st, ps[1]) \o <<SP>> \o Spell(st, Tail(ps))

ParseEntry ==
    /\ idx = 1
    /\ s = "stateKey"
    /\ isEscaping = FALSE
    /\ quoteStyle = SP
    /\ tmpKey = <<>>
    /\ tmpValue = <<>>
    /\ result = EmptyMap
    /\ ret = NoRet

(***************************************************************************)
(* Strings of the configuration and of the commits.                        *)
(***************************************************************************)
UpperRunes == <<"A", "B", "C", "D", "E", "F", "G", "H", "I", "J", "K", "L", "M",
                "N", "O", "P", "Q", "R", "S", "T", "U", "V", "W", "X", "Y", "Z">>

LowerRunes == <<"a", "b", "c", "d", "e", "f", "g", "h", "i", "j", "k", "l", "m",
                "n", "o", "p", "q", "r", "s", "t", "u", "v", "w", "x", "y", "z">>

UpperToLower ==
    [r \in {UpperRunes[i] : i \in 1..Len(UpperRunes)} |->
        LowerRunes[CHOOSE i \in 1..Len(UpperRunes) : UpperRunes[i] = r]]

LowerRune(r) == IF r \in DOMAIN UpperToLower THEN UpperToLower[r] ELSE r

\* strings.ToLower
ToLower(x) == [i \in 1..Len(x) |-> LowerRune(x[i])]

str_bang == <<"b", "a", "n", "g">>
str_patch == <<"p", "a", "t", "c", "h">>
str_minor == <<"m", "i", "n", "o", "r">>
str_major == <<"m", "a", "j", "o", "r">>
str_Major == <<"M", "a", "j", "o", "r">>
str_path == <<"p", "a", "t", "h">>
str_fix == <<"f", "i", "x">>
str_Fix == <<"F", "i", "x">>
str_feat == <<"f", "e", "a", "t">>
str_Feat == <<"F", "e", "a", "t">>
str_chore == <<"c", "h", "o", "r", "e">>
str_api == <<"a", "p", "i">>
str_x == <<"x">>

(***************************************************************************)
(* SemVerComponent and ConventionalCommit                                  *)
(***************************************************************************)
SemVerNone == 0
SemVerPatch == 1
SemVerMinor == 2
SemVerMajor == 3

ConventionalCommit(type, scope, description, body, isBang) ==
    [Type |-> type, Scope |-> scope, Description |-> description,
     Body |-> body, Bang |-> isBang]

semverString == (str_patch :> SemVerPatch) @@ (str_minor :> SemVerMinor)
                    @@ (str_major :> SemVerMajor)

semverFromString(n) ==
    LET w == TrimSpace(ToLower(n)) IN
    IF w \in DOMAIN semverString THEN semverString[w] ELSE SemVerNone

(***************************************************************************)
(* determineBump                                                           *)
(***************************************************************************)
\* The orders in which a range loop may visit the keys of a map.
Orders(S) == {o \in [1..Cardinality(S) -> S] : \A k \in S : \E i \in DOMAIN o : o[i] = k}

\* The loop over c.Rules, visiting the rule names in the order o.
RECURSIVE GroupRules(_, _, _)
GroupRules(rules, o, acc) ==
    IF o = <<>> THEN acc
    ELSE LET ruleName == Head(o)
             kind == rules[ruleName] IN
         IF ruleName = str_bang
         THEN GroupRules(rules, Tail(o), [acc EXCEPT !.bang = semverFromString(kind)])
         ELSE LET k == semverFromString(kind)
                  old == IF k \in DOMAIN acc.components THEN acc.components[k] ELSE <<>> IN
              GroupRules(rules, Tail(o),
                         [acc EXCEPT !.components = MapPut(acc.components, k, Append(old, ruleName))])

comps == <<SemVerMajor, SemVerMinor, SemVerPatch>>

\* compLoop with strings.ToLower(pr) dropped: rule names compared as written.
RECURSIVE CompLoop_CaseSensitive(_, _, _, _)
CompLoop_CaseSensitive(tb, cs, prefix, vs) ==
    IF vs = <<>> THEN tb
    ELSE LET v == Head(vs) IN
         IF v \notin DOMAIN cs THEN CompLoop_CaseSensitive(tb, cs, prefix, Tail(vs))
         ELSE IF tb > v THEN CompLoop_CaseSensitive(tb, cs, prefix, Tail(vs))
         ELSE IF \E i \in 1..Len(cs[v]) : cs[v][i] = prefix THEN v
         ELSE CompLoop_CaseSensitive(tb, cs, prefix, Tail(vs))

\* compLoop that compares the first rule name of each severity only.
RECURSIVE CompLoop_FirstPrefix(_, _, _, _)
CompLoop_FirstPrefix(tb, cs, prefix, vs) ==
    IF vs = <<>> THEN tb
    ELSE LET v == Head(vs) IN
         IF v \notin DOMAIN cs THEN CompLoop_FirstPrefix(tb, cs, prefix, Tail(vs))
         ELSE IF tb > v THEN CompLoop_FirstPrefix(tb, cs, prefix, Tail(vs))
         ELSE IF ToLower(cs[v][1]) = prefix THEN v
         ELSE CompLoop_FirstPrefix(tb, cs, prefix, Tail(vs))

\* compLoop without "if toBump > v { continue }".
RECURSIVE CompLoop_NoSkip(_, _, _, _)
CompLoop_NoSkip(tb, cs, prefix, vs) ==
    IF vs = <<>> THEN tb
    ELSE LET v == Head(vs) IN
         IF v \notin DOMAIN cs THEN CompLoop_NoSkip(tb, cs, prefix, Tail(vs))
         ELSE IF \E i \in 1..Len(cs[v]) : ToLower(cs[v][i]) = prefix THEN v
         ELSE CompLoop_NoSkip(tb, cs, prefix, Tail(vs))

\* compLoop: the severities vs in turn, for the lower-cased type prefix of a commit.
RECURSIVE CompLoop(_, _, _, _)
CompLoop(tb, cs, prefix, vs) ==
    IF vs = <<>> THEN tb
    ELSE LET v == Head(vs) IN
         IF v \notin DOMAIN cs THEN CompLoop(tb, cs, prefix, Tail(vs))
         ELSE IF tb > v THEN CompLoop(tb, cs, prefix, Tail(vs))
         ELSE IF \E i \in 1..Len(cs[v]) : ToLower(cs[v][i]) = prefix THEN v
         ELSE CompLoop(tb, cs, prefix, Tail(vs))

\* The body of the loop over commits with "bang > toBump" written "bang < toBump".
BumpOne_BangBelow(tb, r, hb, bg, cs) ==
    IF r.Bang /\ hb /\ bg < tb
    THEN bg
    ELSE CompLoop(tb, cs, ToLower(r.Type), comps)

\* The body of the loop over commits without the "continue" after "toBump = bang".
BumpOne_NoContinue(tb, r, hb, bg, cs) ==
    CompLoop(IF r.Bang /\ hb /\ bg > tb THEN bg ELSE tb, cs, ToLower(r.Type), comps)

\* The body of the loop over commits, for the commit r: the new toBump.
BumpOne(tb, r, hb, bg, cs) ==
    IF r.Bang /\ hb /\ bg > tb
    THEN bg
    ELSE CompLoop(tb, cs, ToLower(r.Type), comps)

\* Entry, and the loop that groups the rule names by severity.
BumpRules ==
    /\ pc = "determineBump.rules"
    /\ \E o \in Orders(DOMAIN Rules) :
          LET g == GroupRules(Rules, o, [bang |-> SemVerNone, components |-> EmptyMap]) IN
          /\ bang' = g.bang
          /\ components' = g.components
    /\ hasBang' = (str_bang \in DOMAIN Rules)
    /\ toBump' = SemVerNone
    /\ ci' = 1
    /\ pc' = "determineBump.loop"
    /\ UNCHANGED bumpKind
    /\ UNCHANGED nonBumpVars

\* The loop over commits without "if toBump == SemVerMajor { break }".
BumpCommit_NoBreak ==
    /\ pc = "determineBump.loop"
    /\ ci <= Len(commits)
    /\ toBump' = BumpOne(toBump, commits[ci], hasBang, bang, components)
    /\ ci' = ci + 1
    /\ UNCHANGED <<pc, bang, hasBang, components, bumpKind>>
    /\ UNCHANGED nonBumpVars

\* One iteration of the loop over commits.
BumpCommit ==
    /\ pc = "determineBump.loop"
    /\ ci <= Len(commits)
    /\ toBump # SemVerMajor
    /\ toBump' = BumpOne(toBump, commits[ci], hasBang, bang, components)
    /\ ci' = ci + 1
    /\ UNCHANGED <<pc, bang, hasBang, components, bumpKind>>
    /\ UNCHANGED nonBumpVars

\* The loop ends, by the break at SemVerMajor or after the last commit.
BumpReturn ==
    /\ pc = "determineBump.loop"
    /\ (ci > Len(commits) \/ toBump = SemVerMajor)
    /\ bumpKind' = toBump
    /\ pc' = "determineBump.return"
    /\ UNCHANGED <<ci, bang, hasBang, components, toBump>>
    /\ UNCHANGED nonBumpVars

determineBump == BumpRules \/ BumpCommit \/ BumpReturn

\* A caller keeps what determineBump returned and calls it again with the same
\* Context and the same commits in some order.
BumpAgain ==
    /\ frame = "determineBump"
    /\ pc = "determineBump.return"
    /\ calls < MaxRepeats
    /\ calls' = calls + 1
    /\ lastKind' = bumpKind
    /\ lastCommits' = commits
    /\ lastComponents' = components
    /\ \E o \in Orders(1..Len(commits)) :
          commits' = [i \in 1..Len(commits) |-> commits[o[i]]]
    /\ pc' = "determineBump.rules"
    /\ UNCHANGED <<frame, eqlVars, ctxVars, bumpVars, notesVars, runVars, commitVars, lastText>>

BumpEntry ==
    /\ ci = 1
    /\ bang = SemVerNone
    /\ hasBang = FALSE
    /\ components = EmptyMap
    /\ toBump = SemVerNone
    /\ bumpKind = SemVerNone

(***************************************************************************)
(* Inputs of determineBump.                                                *)
(***************************************************************************)
Maps(K, V) == UNION {[D -> V] : D \in SUBSET K}

SeqsUpTo(S, n) == UNION {[1..k -> S] : k \in 0..n}

BumpRuleNames == {str_fix, str_Feat, str_bang}

BumpRuleKinds == {str_patch, str_minor, str_Major, str_path}

BumpCommits ==
    {ConventionalCommit(t, <<>>, str_x, <<>>, b) : t \in {str_Fix, str_feat, str_chore}, b \in BOOLEAN}

(***************************************************************************)
(* makeReleaseText                                                         *)
(***************************************************************************)
str_star == <<"*">>

RECURSIVE Join(_, _)
Join(xs, sep) ==
    IF xs = <<>> THEN <<>>
    ELSE IF Len(xs) = 1 THEN xs[1]
    ELSE xs[1] \o sep \o Join(Tail(xs), sep)

formatCommit(c) ==
    IF c.Scope # <<>>
    THEN <<"-", " ", "*", "*">> \o c.Scope \o <<"*", "*", ":", " ">> \o c.Description
    ELSE <<"-", " ">> \o c.Description

\* The line of a commit that no category matched.
formatOther(r) ==
    IF r.Scope # <<>>
    THEN <<"-", " ">> \o r.Type \o <<"(">> \o r.Scope \o <<")", ":", " ">> \o r.Description
    ELSE <<"-", " ">> \o r.Type \o <<":", " ">> \o r.Description

formatTitle(title) == <<"#", " ">> \o title

\* Entry: the locals, and the loop that looks for the key "*".
NotesEntry ==
    /\ pc = "makeReleaseText.entry"
    /\ categories' = EmptyMap
    /\ usesOther' = (str_star \in DOMAIN Categories)
    /\ others' = <<>>
    /\ output' = <<>>
    /\ visited' = {}
    /\ ri' = 1
    /\ pc' = "makeReleaseText.commits"
    /\ UNCHANGED releaseText
    /\ UNCHANGED nonNotesVars

\* One iteration of the loop over commits. The inner loop ranges over the map
\* c.Categories in an unspecified order and stops at the first key that matches.
NotesCommit ==
    /\ pc = "makeReleaseText.commits"
    /\ ri <= Len(commits)
    /\ LET r == commits[ri]
           commitType == ToLower(r.Type)
           matching == {cat \in DOMAIN Categories :
                            cat # str_star /\ commitType = ToLower(cat)} IN
       IF matching # {}
       THEN /\ \E cat \in matching :
                 LET arr == IF cat \in DOMAIN categories THEN categories[cat] ELSE <<>> IN
                 categories' = MapPut(categories, cat, Append(arr, formatCommit(r)))
            /\ UNCHANGED others
       ELSE /\ others' = IF usesOther THEN Append(others, formatOther(r)) ELSE others
            /\ UNCHANGED categories
    /\ ri' = ri + 1
    /\ UNCHANGED <<pc, usesOther, output, visited, releaseText>>
    /\ UNCHANGED nonNotesVars

\* One iteration of the loop that writes the sections, over the map c.Categories.
NotesSection ==
    /\ pc = "makeReleaseText.commits"
    /\ ri > Len(commits)
    /\ \E id \in (DOMAIN Categories) \ visited :
          /\ visited' = visited \cup {id}
          /\ output' = IF ToLower(id) \in DOMAIN categories
                       THEN (output \o <<formatTitle(Categories[id])>>) \o categories[ToLower(id)]
                       ELSE output
    /\ UNCHANGED <<pc, ri, categories, usesOther, others, releaseText>>
    /\ UNCHANGED nonNotesVars

NotesReturn ==
    /\ pc = "makeReleaseText.commits"
    /\ ri > Len(commits)
    /\ visited = DOMAIN Categories
    /\ releaseText' = Join(output, <<NL>>)
    /\ pc' = "makeReleaseText.return"
    /\ UNCHANGED <<ri, categories, usesOther, others, output, visited>>
    /\ UNCHANGED nonNotesVars

makeReleaseText == NotesEntry \/ NotesCommit \/ NotesSection \/ NotesReturn

\* A caller keeps what makeReleaseText returned and calls it again with the same
\* Context and the same commits.
NotesAgain ==
    /\ frame = "makeReleaseText"
    /\ pc = "makeReleaseText.return"
    /\ calls < MaxRepeats
    /\ calls' = calls + 1
    /\ lastText' = releaseText
    /\ pc' = "makeReleaseText.entry"
    /\ UNCHANGED <<lastKind, lastCommits, lastComponents>>
    /\ UNCHANGED <<frame, eqlVars, ctxVars, commits, bumpVars, notesVars, runVars, commitVars>>

NotesIdle ==
    /\ ri = 1
    /\ categories = EmptyMap
    /\ usesOther = FALSE
    /\ others = <<>>
    /\ output = <<>>
    /\ visited = {}
    /\ releaseText = <<>>

(***************************************************************************)
(* Inputs of makeReleaseText.                                              *)
(***************************************************************************)
str_New == <<"N", "e", "w">>
str_Etc == <<"E", "t", "c">>

NoteCategoryKeys == {str_feat, str_fix, str_Fix, str_star}

NoteTitles == {str_New, str_Etc}

NoteCommits ==
    {ConventionalCommit(t, sc, str_x, <<>>, FALSE) :
        t \in {str_feat, str_Fix, str_chore}, sc \in {<<>>, str_api}}

(***************************************************************************)
(* ParseCommit                                                             *)
(***************************************************************************)
\* The least i >= from with x[i] in S, or 0.
FirstIndex(x, S, from) ==
    IF \E i \in from..Len(x) : x[i] \in S
    THEN CHOOSE i \in from..Len(x) : x[i] \in S /\ \A j \in from..(i - 1) : x[j] \notin S
    ELSE 0

HasPrefix(x, prefix) == Len(x) >= Len(prefix) /\ SubSeq(x, 1, Len(prefix)) = prefix

NoMatch == [ok |-> FALSE, kind |-> <<>>, scope |-> <<>>, bang |-> <<>>, change |-> <<>>]

\* conventionalRegexp with a scope that runs to the last ")" of the message.
conventionalRegexp_GreedyScope(x) ==
    LET q == FirstIndex(x, {"(", ":", "!"}, 1) IN
    IF q <= 1 THEN NoMatch
    ELSE
    LET close == IF x[q] = "(" /\ \E i \in (q + 1)..Len(x) : x[i] = ")"
                 THEN CHOOSE i \in (q + 1)..Len(x) :
                          x[i] = ")" /\ \A j \in (i + 1)..Len(x) : x[j] # ")"
                 ELSE 0
        scoped == x[q] = "(" /\ close > q + 1
        t == IF scoped THEN close + 1 ELSE q
        banged == t <= Len(x) /\ x[t] = "!"
        u == IF banged THEN t + 1 ELSE t
        change == SubSeq(x, u + 2, Len(x)) IN
    IF /\ u + 1 <= Len(x)
       /\ x[u] = ":"
       /\ x[u + 1] = SP
       /\ Len(change) >= 1
       /\ \A i \in 1..Len(change) : change[i] # NL
    THEN [ok |-> TRUE, kind |-> SubSeq(x, 1, q - 1),
          scope |-> IF scoped THEN SubSeq(x, q + 1, close - 1) ELSE <<>>,
          bang |-> IF banged THEN <<"!">> ELSE <<>>, change |-> change]
    ELSE NoMatch

\* conventionalRegexp: ^([^(:!]+)(?:\(([^)]+)\))?(!)?: ([^\n]+)$ and its submatches.
conventionalRegexp(x) ==
    LET q == FirstIndex(x, {"(", ":", "!"}, 1) IN
    IF q <= 1 THEN NoMatch
    ELSE
    LET close == IF x[q] = "(" THEN FirstIndex(x, {")"}, q + 1) ELSE 0
        scoped == x[q] = "(" /\ close > q + 1
        t == IF scoped THEN close + 1 ELSE q
        banged == t <= Len(x) /\ x[t] = "!"
        u == IF banged THEN t + 1 ELSE t
        change == SubSeq(x, u + 2, Len(x)) IN
    IF /\ u + 1 <= Len(x)
       /\ x[u] = ":"
       /\ x[u + 1] = SP
       /\ Len(change) >= 1
       /\ \A i \in 1..Len(change) : change[i] # NL
    THEN [ok |-> TRUE, kind |-> SubSeq(x, 1, q - 1),
          scope |-> IF scoped THEN SubSeq(x, q + 1, close - 1) ELSE <<>>,
          bang |-> IF banged THEN <<"!">> ELSE <<>>, change |-> change]
    ELSE NoMatch

\* multiLineCommit: (.+)\n{2,}(.+\n*)+ matches somewhere in x: a rune that is no
\* newline, two newlines or more, and then a rune that is no newline.
multiLineCommit(x) ==
    \E i \in 1..(Len(x) - 3) :
        /\ x[i] # NL
        /\ x[i + 1] = NL
        /\ x[i + 2] = NL
        /\ \E j \in (i + 3)..Len(x) : x[j] # NL

str_breaking_change ==
    <<"b", "r", "e", "a", "k", "i", "n", "g", " ", "c", "h", "a", "n", "g", "e", ":">>

NilCommit == [isNil |-> TRUE, c |-> ConventionalCommit(<<>>, <<>>, <<>>, <<>>, FALSE)]

\* ParseCommit of a message that multiLineCommit does not match.
ParseHeader(msg) ==
    LET opts == conventionalRegexp(msg) IN
    IF ~opts.ok THEN NilCommit
    ELSE [isNil |-> FALSE,
          c |-> ConventionalCommit(opts.kind, opts.scope, opts.change, <<>>, opts.bang = <<"!">>)]

\* ParseCommit without the loop over lines[1:].
ParseCommit_NoFooter(msg) ==
    IF multiLineCommit(msg)
    THEN LET lines == Split(msg, NL)
             res == ParseHeader(lines[1]) IN
         IF res.isNil THEN NilCommit
         ELSE [isNil |-> FALSE, c |-> [res.c EXCEPT !.Body = Join(Tail(lines), <<NL>>)]]
    ELSE ParseHeader(msg)

ParseCommit(msg) ==
    IF multiLineCommit(msg)
    THEN LET lines == Split(msg, NL)
             res == ParseHeader(lines[1]) IN
         IF res.isNil THEN NilCommit
         ELSE [isNil |-> FALSE,
               c |-> [res.c EXCEPT
                        !.Bang = res.c.Bang \/ \E i \in 2..Len(lines) :
                                     HasPrefix(ToLower(lines[i]), str_breaking_change),
                        !.Body = Join(Tail(lines), <<NL>>)]]
    ELSE ParseHeader(msg)

\* ParseCommit of a message that multiLineCommit matches.
ParseCommitMulti ==
    /\ pc = "ParseCommit.entry"
    /\ multiLineCommit(input)
    /\ parsed' = ParseCommit(input)
    /\ pc' = "ParseCommit.return"
    /\ UNCHANGED <<input, shape>>
    /\ UNCHANGED nonCommitVars

\* ParseCommit of any other message.
ParseCommitSingle ==
    /\ pc = "ParseCommit.entry"
    /\ ~multiLineCommit(input)
    /\ parsed' = ParseCommit(input)
    /\ pc' = "ParseCommit.return"
    /\ UNCHANGED <<input, shape>>
    /\ UNCHANGED nonCommitVars

(***************************************************************************)
(* Inputs of ParseCommit: a first line, put together from a type, a scope, *)
(* a "!" and a description or taken from lines of no such form, then       *)
(* nothing, or 1..MaxGap newlines and up to MaxBodyLines further lines.    *)
(***************************************************************************)
CommitTypes == {str_fix, str_Fix, <<"a", " ", "b">>}

\* <<>> stands for no scope.
CommitScopes == {<<>>, str_api, <<"a", ":", "(", "!">>}

CommitDescriptions == {str_x, <<"a", ":", " ", "b">>, <<"!", ":", " ", "(", "x", ")">>}

Header(type, scope, isBang, description) ==
    type \o (IF scope = <<>> THEN <<>> ELSE <<"(">> \o scope \o <<")">>)
         \o (IF isBang THEN <<"!">> ELSE <<>>) \o <<":", " ">> \o description

\* First lines that are not of the form type[(scope)][!]: description.
OtherFirstLines ==
    { <<"w", "i", "p">>,
      <<"f", "i", "x", ":", "x">>,
      <<":", " ", "x">>,
      <<"f", "i", "x", "(", ")", ":", " ", "x">>,
      <<"f", "i", "x", "(", "a", "p", "i", ":", " ", "x">>,
      <<"f", "i", "x", "!", "!", ":", " ", "x">>,
      <<"f", "i", "x", ":", " ">> }

\* Lines after the first; footer tells whether the line starts with
\* "breaking change:" in some case.
BodyLines ==
    { [text |-> <<"B", "R", "E", "A", "K", "I", "N", "G", " ", "C", "H", "A", "N", "G", "E", ":", " ", "x">>,
       footer |-> TRUE],
      [text |-> <<"b", "r", "e", "a", "k", "i", "n", "g", " ", "c", "h", "a", "n", "g", "e", ":">>,
       footer |-> TRUE],
      [text |-> <<"B", "r", "e", "a", "k", "i", "n", "g", " ", "C", "h", "a", "n", "g", "e", ":", "x">>,
       footer |-> TRUE],
      [text |-> <<"x">>, footer |-> FALSE],
      [text |-> <<"B", "R", "E", "A", "K", "I", "N", "G", " ", "C", "H", "A", "N", "G", "E", " ", "x">>,
       footer |-> FALSE],
      [text |-> <<" ", "b", "r", "e", "a", "k", "i", "n", "g", " ", "c", "h", "a", "n", "g", "e", ":">>,
       footer |-> FALSE],
      [text |-> <<"f", "i", "x", "!", ":", " ", "x">>, footer |-> FALSE] }

FirstLines ==
    { [first |-> Header(ty, sc, bg, de), conventional |-> TRUE,
       type |-> ty, scope |-> sc, bang |-> bg, description |-> de] :
          ty \in CommitTypes, sc \in CommitScopes, bg \in BOOLEAN, de \in CommitDescriptions }
    \cup
    { [first |-> l, conventional |-> FALSE,
       type |-> <<>>, scope |-> <<>>, bang |-> FALSE, description |-> <<>>] :
          l \in OtherFirstLines }

Rests ==
    { [gap |-> 0, lines |-> <<>>] }
    \cup
    { [gap |-> g, lines |-> ls] :
          g \in 1..MaxGap, ls \in UNION {[1..n -> BodyLines] : n \in 1..MaxBodyLines} }

Shapes == { [head |-> f, rest |-> r] : f \in FirstLines, r \in Rests }

Message(sh) ==
    sh.head.first \o [i \in 1..sh.rest.gap |-> NL]
                  \o Join([i \in 1..Len(sh.rest.lines) |-> sh.rest.lines[i].text], <<NL>>)

NoShape == [head |-> [first |-> <<>>, conventional |-> FALSE, type |-> <<>>, scope |-> <<>>,
                      bang |-> FALSE, description |-> <<>>],
            rest |-> [gap |-> 0, lines |-> <<>>]]

CommitIdle ==
    /\ input = <<>>
    /\ shape = NoShape
    /\ parsed = NilCommit
    /\ calls = 0
    /\ lastText = <<>>
    /\ lastKind = SemVerNone
    /\ lastCommits = <<>>
    /\ lastComponents = EmptyMap

(***************************************************************************)
(* run                                                                     *)
(***************************************************************************)
Digits == <<"0", "1", "2", "3", "4", "5", "6", "7", "8", "9">>

IsDigit(r) == \E d \in 1..10 : Digits[d] = r

DigitValue(r) == (CHOOSE d \in 1..10 : Digits[d] = r) - 1

RECURSIVE DigitsValue(_)
DigitsValue(x) ==
    IF x = <<>> THEN 0
    ELSE 10 * DigitsValue(SubSeq(x, 1, Len(x) - 1)) + DigitValue(x[Len(x)])

\* strconv.Atoi with the error dropped: 0 for what is no decimal integer.
Atoi(x) ==
    LET signed == x # <<>> /\ Head(x) \in {"+", "-"}
        ds == IF signed THEN Tail(x) ELSE x IN
    IF ds = <<>> \/ \E i \in 1..Len(ds) : ~IsDigit(ds[i]) THEN 0
    ELSE IF signed /\ Head(x) = "-" THEN 0 - DigitsValue(ds)
    ELSE DigitsValue(ds)

\* fmt.Sprintf("%d", n)
RECURSIVE Itoa(_)
Itoa(n) ==
    IF n < 0 THEN <<"-">> \o Itoa(0 - n)
    ELSE IF n < 10 THEN <<Digits[n + 1]>>
    ELSE Itoa(n \div 10) \o <<Digits[(n % 10) + 1]>>

TrimPrefix(x, prefix) == IF HasPrefix(x, prefix) THEN SubSeq(x, Len(prefix) + 1, Len(x)) ELSE x

rawComponents(v) == Split(TrimPrefix(v, <<"v">>), ".")

\* parseSemVer, where it does not panic (three components or more).
parseSemVer(v) ==
    [major |-> Atoi(rawComponents(v)[1]),
     minor |-> Atoi(rawComponents(v)[2]),
     patch |-> Atoi(rawComponents(v)[3])]

\* The switch on bumpKind with "patch = 0" left out of the SemVerMinor case.
Bumped_KeepPatch(kind, ma, mi, pa) ==
    CASE kind = SemVerPatch -> [major |-> ma, minor |-> mi, patch |-> pa + 1]
      [] kind = SemVerMinor -> [major |-> ma, minor |-> mi + 1, patch |-> pa]
      [] kind = SemVerMajor -> [major |-> ma + 1, minor |-> 0, patch |-> 0]
      [] OTHER -> [major |-> ma, minor |-> mi, patch |-> pa]

\* The switch on bumpKind: the new major, minor and patch.
Bumped(kind, ma, mi, pa) ==
    CASE kind = SemVerPatch -> [major |-> ma, minor |-> mi, patch |-> pa + 1]
      [] kind = SemVerMinor -> [major |-> ma, minor |-> mi + 1, patch |-> 0]
      [] kind = SemVerMajor -> [major |-> ma + 1, minor |-> 0, patch |-> 0]
      [] OTHER -> [major |-> ma, minor |-> mi, patch |-> pa]

\* fmt.Sprintf("v%d.%d.%d", major, minor, patch)
SprintfVersion(ma, mi, pa) == <<"v">> \o Itoa(ma) \o <<".">> \o Itoa(mi) \o <<".">> \o Itoa(pa)

Abort ==
    /\ exit' = "exit1"
    /\ pc' = "run.exit"

Return ==
    /\ exit' = "returned"
    /\ pc' = "run.exit"

\* run without the check of the rule values.
RunValidate_NoCheck ==
    /\ pc = "run.entry"
    /\ pc' = "run.open"
    /\ UNCHANGED exit
    /\ UNCHANGED <<latestVersion, conventionals, excluded, li, major, minor, patch,
                   nextVersion, versionOut, createdTags, pushed, releases>>
    /\ UNCHANGED <<commits, nonRunVars>>

\* The check of the rule values, before anything else.
RunValidate ==
    /\ pc = "run.entry"
    /\ IF \E k \in DOMAIN Rules : ToLower(Rules[k]) \notin {str_patch, str_minor, str_major}
       THEN Abort
       ELSE /\ pc' = "run.open"
            /\ UNCHANGED exit
    /\ UNCHANGED <<latestVersion, conventionals, excluded, li, major, minor, patch,
                   nextVersion, versionOut, createdTags, pushed, releases>>
    /\ UNCHANGED <<commits, nonRunVars>>

\* The latest version: the greatest tag that semver.IsValid accepts, or v0.0.0.
LatestVersions ==
    { <<"v", "0", ".", "0", ".", "0">>,
      <<"v", "1", ".", "2", ".", "3">>,
      <<"v", "0", ".", "9", ".", "1", "9">>,
      <<"v", "1", ".", "2">>,
      <<"v", "1", ".", "2", ".", "3", "-", "r", "c">> }

\* Opening the repository, the tags, the latest version and the log iterator.
RunOpen ==
    /\ pc = "run.open"
    /\ \/ /\ Abort
          /\ UNCHANGED latestVersion
       \/ /\ latestVersion' \in LatestVersions
          /\ pc' = "run.log"
          /\ UNCHANGED exit
    /\ UNCHANGED <<conventionals, excluded, li, major, minor, patch,
                   nextVersion, versionOut, createdTags, pushed, releases>>
    /\ UNCHANGED <<commits, nonRunVars>>

str_colon == <<":", " ">>

msg_fix == str_fix \o str_colon \o str_x
msg_feat == str_feat \o <<"(">> \o str_api \o <<")", "!">> \o str_colon \o str_x
msg_chore == str_chore \o str_colon \o str_x
msg_wip == <<"w", "i", "p">>
msg_breaking ==
    str_Fix \o str_colon \o str_x \o <<NL, NL>>
        \o <<"B", "R", "E", "A", "K", "I", "N", "G", " ", "C", "H", "A", "N", "G", "E", ":", " ", "x", NL>>

\* The commit messages of the repository.
RunMessages == {msg_fix, msg_feat, msg_chore, msg_wip, msg_breaking}

\* ParseCommit(strings.TrimSpace(commit.Message)) of each of them.
RunParsed == [message \in RunMessages |-> ParseCommit(TrimSpace(message))]

\* The number of entries v of c.Ignore with strings.ToLower(v) == conv.Type.
IgnoreHits(type) == Cardinality({j \in 1..Len(Ignore) : ToLower(Ignore[j]) = type})

\* One iteration of the loop over the log: an error, the commit of the last
\* release, or one more commit.
RunLog ==
    /\ pc = "run.log"
    /\ \/ /\ Abort
          /\ UNCHANGED <<conventionals, excluded, li>>
       \/ /\ pc' = "run.check"
          /\ UNCHANGED <<conventionals, excluded, li, exit>>
       \/ /\ li < MaxLog
          /\ \E message \in RunMessages :
                LET conv == RunParsed[message] IN
                IF ~conv.isNil
                THEN /\ excluded' = excluded + IgnoreHits(conv.c.Type)
                     /\ conventionals' = Append(conventionals, conv.c)
                ELSE UNCHANGED <<conventionals, excluded>>
          /\ li' = li + 1
          /\ UNCHANGED <<pc, exit>>
    /\ UNCHANGED <<latestVersion, major, minor, patch,
                   nextVersion, versionOut, createdTags, pushed, releases>>
    /\ UNCHANGED <<commits, nonRunVars>>

\* After the loop: nothing to release, or parseSemVer and the call of determineBump.
RunCheck ==
    /\ pc = "run.check"
    /\ IF Len(conventionals) = 0
       THEN /\ Return
            /\ UNCHANGED <<major, minor, patch, commits>>
       ELSE IF Len(rawComponents(latestVersion)) < 3
       THEN /\ exit' = "panic"
            /\ pc' = "run.exit"
            /\ UNCHANGED <<major, minor, patch, commits>>
       ELSE /\ major' = parseSemVer(latestVersion).major
            /\ minor' = parseSemVer(latestVersion).minor
            /\ patch' = parseSemVer(latestVersion).patch
            /\ commits' = conventionals
            /\ pc' = "determineBump.rules"
            /\ UNCHANGED exit
    /\ UNCHANGED <<latestVersion, conventionals, excluded, li,
                   nextVersion, versionOut, createdTags, pushed, releases>>
    /\ UNCHANGED nonRunVars

\* The switch with the "return" of the SemVerNone case left out.
RunSwitch_NoReturn ==
    /\ frame = "run"
    /\ pc = "determineBump.return"
    /\ LET b == Bumped(bumpKind, major, minor, patch) IN
       /\ major' = b.major
       /\ minor' = b.minor
       /\ patch' = b.patch
       /\ nextVersion' = SprintfVersion(b.major, b.minor, b.patch)
       /\ versionOut' = Append(versionOut, nextVersion')
       /\ IF ~Push
          THEN Return
          ELSE /\ pc' = "run.tag"
               /\ UNCHANGED exit
    /\ UNCHANGED <<latestVersion, conventionals, excluded, li, createdTags, pushed, releases>>
    /\ UNCHANGED <<commits, nonRunVars>>

\* The switch on bumpKind, the version output, and the return when c.Push is false.
RunSwitch ==
    /\ frame = "run"
    /\ pc = "determineBump.return"
    /\ IF bumpKind = SemVerNone
       THEN /\ Return
            /\ UNCHANGED <<major, minor, patch, nextVersion, versionOut>>
       ELSE LET b == Bumped(bumpKind, major, minor, patch) IN
            /\ major' = b.major
            /\ minor' = b.minor
            /\ patch' = b.patch
            /\ nextVersion' = SprintfVersion(b.major, b.minor, b.patch)
            /\ versionOut' = Append(versionOut, nextVersion')
            /\ IF ~Push
               THEN Return
               ELSE /\ pc' = "run.tag"
                    /\ UNCHANGED exit
    /\ UNCHANGED <<latestVersion, conventionals, excluded, li, createdTags, pushed, releases>>
    /\ UNCHANGED <<commits, nonRunVars>>

\* repo.Head and repo.CreateTag.
RunTag ==
    /\ pc = "run.tag"
    /\ \/ /\ Abort
          /\ UNCHANGED createdTags
       \/ /\ createdTags' = createdTags \cup {nextVersion}
          /\ pc' = "run.push"
          /\ UNCHANGED exit
    /\ UNCHANGED <<latestVersion, conventionals, excluded, li, major, minor, patch,
                   nextVersion, versionOut, pushed, releases>>
    /\ UNCHANGED <<commits, nonRunVars>>

\* The helper remote, repo.Push and the call of makeReleaseText.
RunPush ==
    /\ pc = "run.push"
    /\ \/ /\ Abort
          /\ UNCHANGED <<pushed, commits>>
       \/ /\ pushed' = pushed \cup {nextVersion}
          /\ commits' = conventionals
          /\ pc' = "makeReleaseText.entry"
          /\ UNCHANGED exit
    /\ UNCHANGED <<latestVersion, conventionals, excluded, li, major, minor, patch,
                   nextVersion, versionOut, createdTags, releases>>
    /\ UNCHANGED nonRunVars

\* client.Repositories.CreateRelease.
RunRelease ==
    /\ frame = "run"
    /\ pc = "makeReleaseText.return"
    /\ \/ /\ Abort
          /\ UNCHANGED releases
       \/ /\ releases' = Append(releases, [TagName |-> nextVersion, Name |-> nextVersion,
                                           Body |-> releaseText])
          /\ Return
    /\ UNCHANGED <<latestVersion, conventionals, excluded, li, major, minor, patch,
                   nextVersion, versionOut, createdTags, pushed>>
    /\ UNCHANGED <<commits, nonRunVars>>

run ==
    \/ RunValidate \/ RunOpen \/ RunLog \/ RunCheck \/ determineBump \/ RunSwitch
    \/ RunTag \/ RunPush \/ makeReleaseText \/ RunRelease

(***************************************************************************)
(* Inputs of run.                                                          *)
(***************************************************************************)
RunRules ==
    { (str_fix :> str_patch) @@ (str_feat :> str_minor) @@ (str_bang :> str_Major),
      (str_fix :> str_patch) @@ (str_chore :> str_minor),
      (str_fix :> str_patch) @@ (str_feat :> str_path) }

RunCategories ==
    { (str_feat :> str_New) @@ (str_star :> str_Etc),
      (str_Fix :> str_Etc) }

RunIgnores == {<<>>, <<str_chore>>, <<str_Fix, str_chore>>}

(***************************************************************************)
(* Specifications: one per entry point.                                    *)
(***************************************************************************)
EqlIdle ==
    /\ ParseEntry
    /\ str = <<>>
    /\ pairs = <<>>
    /\ style = "raw"

\* The fields of the Context that the function entered does not read.
CtxIdle ==
    /\ Categories = EmptyMap
    /\ Ignore = <<>>
    /\ Push = FALSE

RunIdle ==
    /\ latestVersion = <<>>
    /\ conventionals = <<>>
    /\ excluded = 0
    /\ li = 0
    /\ major = 0
    /\ minor = 0
    /\ patch = 0
    /\ nextVersion = <<>>
    /\ versionOut = <<>>
    /\ createdTags = {}
    /\ pushed = {}
    /\ releases = <<>>
    /\ exit = "running"

InitEql ==
    /\ frame = "Parse"
    /\ pc = "Parse.loop"
    /\ ParseEntry
    /\ \/ /\ style = "raw"
          /\ pairs = <<>>
          /\ str \in RawInputs
       \/ /\ style \in {"tight", "spaced", "quoted"}
          /\ pairs \in PairLists
          /\ str = Spell(style, pairs)
    /\ Rules = EmptyMap
    /\ commits = <<>>
    /\ CtxIdle
    /\ BumpEntry
    /\ NotesIdle
    /\ RunIdle
    /\ CommitIdle

NextEql == Parse

SpecEql == InitEql /\ [][NextEql]_vars

InitBump ==
    /\ frame = "determineBump"
    /\ pc = "determineBump.rules"
    /\ Rules \in Maps(BumpRuleNames, BumpRuleKinds)
    /\ commits \in SeqsUpTo(BumpCommits, MaxBumpCommits)
    /\ BumpEntry
    /\ CtxIdle
    /\ EqlIdle
    /\ NotesIdle
    /\ RunIdle
    /\ CommitIdle

NextBump == determineBump

SpecBump == InitBump /\ [][NextBump]_vars

InitBumpAgain ==
    /\ frame = "determineBump"
    /\ pc = "determineBump.rules"
    /\ Rules \in Maps(BumpRuleNames, BumpRuleKinds)
    /\ commits \in SeqsUpTo(BumpCommits, MaxReorderCommits)
    /\ BumpEntry
    /\ CtxIdle
    /\ EqlIdle
    /\ NotesIdle
    /\ RunIdle
    /\ CommitIdle

NextBumpAgain == determineBump \/ BumpAgain

SpecBumpAgain == InitBumpAgain /\ [][NextBumpAgain]_vars

InitNotes ==
    /\ frame = "makeReleaseText"
    /\ pc = "makeReleaseText.entry"
    /\ Categories \in Maps(NoteCategoryKeys, NoteTitles)
    /\ commits \in SeqsUpTo(NoteCommits, MaxNoteCommits)
    /\ Rules = EmptyMap
    /\ Ignore = <<>>
    /\ Push = FALSE
    /\ NotesIdle
    /\ BumpEntry
    /\ EqlIdle
    /\ RunIdle
    /\ CommitIdle

NextNotes == makeReleaseText

SpecNotes == InitNotes /\ [][NextNotes]_vars

NextNotesAgain == makeReleaseText \/ NotesAgain

SpecNotesAgain == InitNotes /\ [][NextNotesAgain]_vars

InitRun ==
    /\ frame = "run"
    /\ pc = "run.entry"
    /\ Rules \in RunRules
    /\ Categories \in RunCategories
    /\ Ignore \in RunIgnores
    /\ Push \in BOOLEAN
    /\ commits = <<>>
    /\ RunIdle
    /\ BumpEntry
    /\ NotesIdle
    /\ EqlIdle
    /\ CommitIdle

NextRun == run

SpecRun == InitRun /\ [][NextRun]_vars

InitCommit ==
    /\ frame = "ParseCommit"
    /\ pc = "ParseCommit.entry"
    /\ shape \in Shapes
    /\ input = Message(shape)
    /\ parsed = NilCommit
    /\ calls = 0
    /\ lastText = <<>>
    /\ lastKind = SemVerNone
    /\ lastCommits = <<>>
    /\ lastComponents = EmptyMap
    /\ Rules = EmptyMap
    /\ commits = <<>>
    /\ CtxIdle
    /\ BumpEntry
    /\ NotesIdle
    /\ EqlIdle
    /\ RunIdle

NextCommit == ParseCommitMulti \/ ParseCommitSingle

SpecCommit == InitCommit /\ [][NextCommit]_vars

(***************************************************************************)
(* Properties of determineBump.                                            *)
(***************************************************************************)
\* run's check of the rules: every value is patch, minor or major, in any case.
ValidRules(rules) ==
    \A k \in DOMAIN rules : ToLower(rules[k]) \in {str_patch, str_minor, str_major}

BumpReturned == frame = "determineBump" /\ pc = "determineBump.return"

\* C4: with a "bang" rule and a breaking commit anywhere in the sequence, the result
\* is at least the bang severity (Major when bang is major).
C4_BangFloor ==
    (BumpReturned /\ str_bang \in DOMAIN Rules /\ \E i \in 1..Len(commits) : commits[i].Bang)
        => bumpKind >= semverFromString(Rules[str_bang])

C4_Witness ==
    /\ BumpReturned
    /\ str_bang \in DOMAIN Rules
    /\ Rules[str_bang] = str_Major
    /\ Len(commits) = 3
    /\ ~commits[1].Bang /\ ~commits[2].Bang /\ commits[3].Bang
    /\ str_fix \in DOMAIN Rules /\ Rules[str_fix] = str_minor
    /\ commits[1].Type = str_Fix
    /\ bumpKind = SemVerMajor

\* No commit applies any rule: no type equals a non-bang rule name ignoring case,
\* and there is no "bang" rule or no breaking commit.
NoRuleApplies ==
    /\ \A i \in 1..Len(commits) : \A name \in (DOMAIN Rules) \ {str_bang} :
           ToLower(name) # ToLower(commits[i].Type)
    /\ str_bang \notin DOMAIN Rules \/ \A i \in 1..Len(commits) : ~commits[i].Bang

\* C5: with rules whose values are all valid severity words, determineBump returns
\* None if and only if no commit applies any rule.
C5_NoneIffNoRuleApplies ==
    (BumpReturned /\ ValidRules(Rules)) => (bumpKind = SemVerNone <=> NoRuleApplies)

C5_Witness ==
    /\ BumpReturned
    /\ ValidRules(Rules)
    /\ DOMAIN Rules = {str_fix, str_bang}
    /\ Len(commits) = 3
    /\ \A i \in 1..3 : commits[i].Type = str_chore /\ ~commits[i].Bang
    /\ bumpKind = SemVerNone

\* C18: the result is at least the severity of every rule, other than "bang", whose
\* name equals the type of some commit of the sequence ignoring case, whether that
\* commit is breaking or not.
C18_AtLeastTypeSeverity ==
    (BumpReturned /\ ValidRules(Rules))
        => \A i \in 1..Len(commits) : \A k \in (DOMAIN Rules) \ {str_bang} :
              ToLower(k) = ToLower(commits[i].Type)
                  => bumpKind >= semverFromString(Rules[k])

\* C18 amended: the same, for the commits that are not breaking, for any commit
\* when there is no "bang" rule, and for the rules whose severity is not above the
\* severity of the "bang" rule.
C18_AtLeastPlainTypeSeverity ==
    (BumpReturned /\ ValidRules(Rules))
        => \A i \in 1..Len(commits) : \A k \in (DOMAIN Rules) \ {str_bang} :
              ( /\ ToLower(k) = ToLower(commits[i].Type)
                /\ \/ ~commits[i].Bang
                   \/ str_bang \notin DOMAIN Rules
                   \/ semverFromString(Rules[str_bang]) >= semverFromString(Rules[k]) )
                  => bumpKind >= semverFromString(Rules[k])

C18_Witness ==
    /\ BumpReturned
    /\ Rules = (str_bang :> str_patch) @@ (str_Feat :> str_minor) @@ (str_fix :> str_patch)
    /\ Len(commits) = 3
    /\ commits[1].Bang /\ commits[1].Type = str_Fix
    /\ ~commits[2].Bang /\ commits[2].Type = str_feat
    /\ ~commits[3].Bang /\ commits[3].Type = str_Fix
    /\ bumpKind = SemVerMinor

OrderRules == (str_bang :> str_patch) @@ (str_Feat :> str_minor) @@ (str_fix :> str_patch)

BreakingFeat == ConventionalCommit(str_feat, <<>>, str_x, <<>>, TRUE)

PlainFix == ConventionalCommit(str_Fix, <<>>, str_x, <<>>, FALSE)

\* C19: with the rules bang=patch Feat=minor fix=patch, determineBump returns Patch
\* for the commits [feat!, Fix] and Minor for the same commits in the order
\* [Fix, feat!].
C19_OrderMatters ==
    (BumpReturned /\ calls = 1 /\ Rules = OrderRules
        /\ lastCommits = <<BreakingFeat, PlainFix>> /\ commits = <<PlainFix, BreakingFeat>>)
        => (lastKind = SemVerPatch /\ bumpKind = SemVerMinor)

C19_Witness ==
    /\ BumpReturned
    /\ calls = 1
    /\ Rules = OrderRules
    /\ lastCommits = <<BreakingFeat, PlainFix>>
    /\ commits = <<PlainFix, BreakingFeat>>
    /\ lastKind # bumpKind

\* C22: no iteration of the loop over commits lowers toBump, and once toBump is
\* Major the next step is the return of Major, with no further commit evaluated.
C22_MonotoneAndAbsorbing ==
    [][pc = "determineBump.loop" =>
          /\ toBump' >= toBump
          /\ toBump = SemVerMajor =>
                (pc' = "determineBump.return" /\ bumpKind' = SemVerMajor /\ ci' = ci)]_vars

C22_Witness ==
    /\ BumpReturned
    /\ Len(commits) = 3
    /\ ci = 2
    /\ toBump = SemVerMajor
    /\ bumpKind = SemVerMajor

\* C23: a call of determineBump with the rules and the commits of an earlier call,
\* in the same order, returns what the earlier call returned, whatever the order in
\* which either call went through the rule mapping.
C23_SameForAnyRuleOrder ==
    (BumpReturned /\ calls >= 1 /\ commits = lastCommits) => bumpKind = lastKind

C23_Witness ==
    /\ BumpReturned
    /\ calls = 1
    /\ commits = lastCommits
    /\ Len(commits) = 2
    /\ Rules = (str_bang :> str_Major) @@ (str_Feat :> str_minor) @@ (str_fix :> str_minor)
    /\ components # lastComponents
    /\ bumpKind = SemVerMinor
    /\ lastKind = SemVerMinor

(***************************************************************************)
(* Properties of eql.Parse.                                                *)
(***************************************************************************)
DistinctKeys(ps) == \A i, j \in 1..Len(ps) : i # j => ps[i].k # ps[j].k

NonEmptyWords(ps) == \A i \in 1..Len(ps) : ps[i].k # <<>> /\ ps[i].v # <<>>

\* Parse returned, without error, exactly the mapping {k: v} of the pairs ps.
ReturnsMappingOf(ps) ==
    /\ ret.err = ""
    /\ ~ret.isNil
    /\ DOMAIN ret.m = {ps[i].k : i \in 1..Len(ps)}
    /\ \A i \in 1..Len(ps) : ret.m[ps[i].k] = ps[i].v
    /\ Cardinality(DOMAIN ret.m) = Len(ps)

\* C8 as stated: for any list of pairs with distinct keys whose keys and values hold
\* no space, '=', quote or backslash, each of the spellings k=v, k = v and k = "v"
\* parses without error to the mapping {k: v} with one entry per pair.
C8_AnyWords ==
    (pc = "Parse.return" /\ style # "raw" /\ DistinctKeys(pairs))
        => ReturnsMappingOf(pairs)

\* C8 amended: the same, for pairs whose keys and values are also non-empty.
C8_SpellingsAgree ==
    (pc = "Parse.return" /\ style # "raw" /\ DistinctKeys(pairs) /\ NonEmptyWords(pairs))
        => ReturnsMappingOf(pairs)

C8_Witness ==
    /\ pc = "Parse.return"
    /\ style = "quoted"
    /\ Len(pairs) = 2
    /\ DistinctKeys(pairs)
    /\ NonEmptyWords(pairs)
    /\ ReturnsMappingOf(pairs)

\* C9: an '=' met in Key state with an empty pending key makes Parse fail with an
\* error that reports the 1-based character index of that '=', and the mapping
\* returned is nil.
C9_ErrorAtCharacterIndex ==
    (pc = "Parse.return" /\ ret.err = "unexpected '='")
        => (str[idx] = EQ /\ ret.pos = idx /\ ret.isNil)

\* C10: in Quote state a backslash only marks the escape as pending; the rune after
\* it is appended alone when it is the delimiter (and does not close the value) and
\* with the backslash before it otherwise, another backslash included; the pending
\* flag is cleared by that one rune.
C10_EscapeStep ==
    [][(pc = "Parse.loop" /\ idx <= Len(str) /\ s = "stateQuote")
          => IF isEscaping
             THEN /\ isEscaping' = FALSE
                  /\ s' = "stateQuote"
                  /\ tmpValue' = IF str[idx] = quoteStyle
                                 THEN Append(tmpValue, quoteStyle)
                                 ELSE tmpValue \o <<BS, str[idx]>>
             ELSE str[idx] = BS => (isEscaping' /\ tmpValue' = tmpValue)]_vars

\* C11: when the end of the input is reached in Quote state, Parse returns the
\* error "unterminated quoted string" and a nil mapping.
C11_Unterminated ==
    (pc = "Parse.return" /\ idx > Len(str) /\ s = "stateQuote")
        => (ret.err = "unterminated quoted string" /\ ret.isNil /\ ret.m = EmptyMap)

C11_Witness ==
    /\ pc = "Parse.return"
    /\ idx > Len(str)
    /\ s = "stateQuote"
    /\ quoteStyle = SQ
    /\ tmpValue # <<>>
    /\ isEscaping
    /\ ret.err = "unterminated quoted string"

\* The value of the last pair of ps with key k.
LastValue(ps, k) ==
    ps[CHOOSE i \in 1..Len(ps) : ps[i].k = k /\ \A j \in (i + 1)..Len(ps) : ps[j].k # k].v

\* C12: a list of pairs with non-empty keys and values, keys repeated or not, in any
\* of the three spellings, parses without error to a mapping with one entry per
\* distinct key, whose value is that of the last pair with this key.
C12_LastWins ==
    (pc = "Parse.return" /\ style # "raw" /\ NonEmptyWords(pairs))
        => /\ ret.err = ""
           /\ ~ret.isNil
           /\ DOMAIN ret.m = {pairs[i].k : i \in 1..Len(pairs)}
           /\ \A k \in DOMAIN ret.m : ret.m[k] = LastValue(pairs, k)

C12_Witness ==
    /\ pc = "Parse.return"
    /\ style = "tight"
    /\ NonEmptyWords(pairs)
    /\ Len(pairs) = 3
    /\ pairs[1].k = pairs[3].k
    /\ pairs[2].k # pairs[1].k
    /\ pairs[1].v # pairs[3].v
    /\ ~ret.isNil
    /\ Cardinality(DOMAIN ret.m) = 2
    /\ ret.m[pairs[1].k] = pairs[3].v
    /\ ret.m[pairs[2].k] = pairs[2].v

\* C20: a step of the scanner enters Quote state exactly when it is in Value state,
\* the pending value is empty (only spaces since '=') and the rune is '"' or "'";
\* with a pending unquoted value either quote is appended to it as an ordinary
\* rune and the scanner stays in Value state.
C20_QuoteEntry ==
    [][(pc = "Parse.loop" /\ idx <= Len(str))
          => /\ (s # "stateQuote" /\ s' = "stateQuote")
                    <=> (s = "stateValue" /\ tmpValue = <<>> /\ str[idx] \in {DQ, SQ})
             /\ (s = "stateValue" /\ tmpValue # <<>> /\ str[idx] \in {DQ, SQ})
                    => (s' = "stateValue" /\ tmpValue' = Append(tmpValue, str[idx]))]_vars

\* C21: every key of a mapping that Parse returns is non-empty and holds neither a
\* space nor '='.
C21_PlainKeys ==
    (pc = "Parse.return" /\ ~ret.isNil)
        => \A k \in DOMAIN ret.m : k # <<>> /\ \A i \in 1..Len(k) : k[i] \notin {SP, EQ}

\* C24: Parse returns an error only for an '=' met in Key state with an empty
\* pending key and for the end of the input met in Quote state; every other return
\* is without error and with a mapping, and the end of the input met in Key state
\* returns the mapping as it is, without an entry for the pending key.
C24_OnlyTwoFailures ==
    [][pc' = "Parse.return" =>
          /\ pc = "Parse.loop"
          /\ ret'.err # "" =>
                \/ /\ ret'.err = "unexpected '='"
                   /\ idx <= Len(str) /\ str[idx] = EQ /\ s = "stateKey" /\ tmpKey = <<>>
                \/ /\ ret'.err = "unterminated quoted string"
                   /\ idx > Len(str) /\ s = "stateQuote"
          /\ ret'.err = "" => (~ret'.isNil /\ idx > Len(str))
          /\ (idx > Len(str) /\ s = "stateKey")
                => (ret'.err = "" /\ ~ret'.isNil /\ ret'.m = result /\ result' = result)]_vars

C24_Witness ==
    /\ pc = "Parse.return"
    /\ style = "raw"
    /\ idx > Len(str)
    /\ ret.err = ""
    /\ ~ret.isNil
    /\ tmpKey # <<>>
    /\ result # EmptyMap
    /\ ret.m = result
    /\ TrimSpace(tmpKey) \notin DOMAIN ret.m

(***************************************************************************)
(* Properties of makeReleaseText.                                          *)
(***************************************************************************)
IsHeading(l) == Len(l) >= 2 /\ l[1] = "#" /\ l[2] = SP

\* The text holds a section with this heading line that contains this line.
InSection(text, heading, line) ==
    LET ls == Split(text, NL) IN
    \E h \in 1..Len(ls) : \E j \in (h + 1)..Len(ls) :
        /\ ls[h] = heading
        /\ ls[j] = line
        /\ \A k \in (h + 1)..j : ~IsHeading(ls[k])

HasLine(text, line) == \E j \in 1..Len(Split(text, NL)) : Split(text, NL)[j] = line

NotesReturned == frame = "makeReleaseText" /\ pc = "makeReleaseText.return"

MatchingKeys(r) ==
    {cat \in (DOMAIN Categories) \ {str_star} : ToLower(cat) = ToLower(r.Type)}

\* C2: with the key "*" configured, every commit whose type matches no other
\* category key has its line "- type(scope): description" (or "- type: description")
\* in the output under the heading of the wildcard's title; without "*" such a commit
\* has no line in the output.
C2_WildcardSection ==
    NotesReturned =>
        \A i \in 1..Len(commits) :
            MatchingKeys(commits[i]) = {} =>
                IF str_star \in DOMAIN Categories
                THEN InSection(releaseText, formatTitle(Categories[str_star]),
                               formatOther(commits[i]))
                ELSE ~HasLine(releaseText, formatOther(commits[i]))

\* C3: every commit whose type equals a non-wildcard category key ignoring case has
\* its line ("- **scope**: description" or "- description") in the output, in a
\* section headed "# <title>" of a key it matches.
C3_CategorySection ==
    NotesReturned =>
        \A i \in 1..Len(commits) :
            MatchingKeys(commits[i]) # {} =>
                \E cat \in MatchingKeys(commits[i]) :
                    InSection(releaseText, formatTitle(Categories[cat]),
                              formatCommit(commits[i]))

\* C16: a call of makeReleaseText with the Context and the commits of an earlier
\* call returns the text the earlier call returned.
C16_SameText ==
    (frame = "makeReleaseText" /\ pc = "makeReleaseText.return" /\ calls >= 1)
        => releaseText = lastText

(***************************************************************************)
(* Properties of ParseCommit.                                              *)
(***************************************************************************)
ParseReturned == frame = "ParseCommit" /\ pc = "ParseCommit.return"

\* C13: ParseCommit returns a commit exactly when the first line of the message is
\* of the form type[(scope)][!]: description, whatever follows the first line:
\* nothing, one newline and text, or blank lines and text.
C13_NilIffNoHeader ==
    ParseReturned => (parsed.isNil <=> ~shape.head.conventional)

\* C14: for a first line of that form followed by two newlines or more and further
\* lines, Bang is true exactly when the first line has "!" or one of the further
\* lines starts with "breaking change:" in any case.
C14_FooterBang ==
    (ParseReturned /\ shape.head.conventional /\ shape.rest.gap >= 2)
        => /\ ~parsed.isNil
           /\ parsed.c.Bang <=>
                 (shape.head.bang \/ \E i \in 1..Len(shape.rest.lines) : shape.rest.lines[i].footer)

C14_Witness ==
    /\ ParseReturned
    /\ shape.head.conventional
    /\ ~shape.head.bang
    /\ shape.rest.gap = 2
    /\ Len(shape.rest.lines) = 2
    /\ ~shape.rest.lines[1].footer
    /\ shape.rest.lines[2].footer
    /\ ~parsed.isNil
    /\ parsed.c.Bang

\* C15: a message of one line type[(scope)][!]: description gives a commit with that
\* type, that scope (empty without one), that description, Bang exactly when "!" is
\* there, and an empty body.
C15_SingleLine ==
    (ParseReturned /\ shape.head.conventional /\ shape.rest.gap = 0)
        => /\ ~parsed.isNil
           /\ parsed.c = ConventionalCommit(shape.head.type, shape.head.scope,
                                            shape.head.description, <<>>, shape.head.bang)

C15_Witness ==
    /\ ParseReturned
    /\ shape.rest.gap = 0
    /\ shape.head.type = <<"a", " ", "b">>
    /\ shape.head.scope = <<"a", ":", "(", "!">>
    /\ shape.head.bang
    /\ shape.head.description = <<"!", ":", " ", "(", "x", ")">>
    /\ ~parsed.isNil
    /\ parsed.c.Scope = <<"a", ":", "(", "!">>
    /\ parsed.c.Body = <<>>

(***************************************************************************)
(* Properties of run.                                                      *)
(***************************************************************************)
\* C1: a conventional commit whose type equals an entry of the ignore list is
\* dropped: it is never in the working commit set, nor in the commits handed to
\* determineBump and makeReleaseText.
C1_IgnoredDropped ==
    frame = "run" =>
        \A j \in 1..Len(Ignore) :
            /\ \A i \in 1..Len(conventionals) : conventionals[i].Type # Ignore[j]
            /\ \A i \in 1..Len(commits) : commits[i].Type # Ignore[j]

NoEffects ==
    /\ versionOut = <<>>
    /\ createdTags = {}
    /\ pushed = {}
    /\ releases = <<>>

\* C6: when no conventional commit was collected, or when determineBump returned
\* None, the next step of run is its normal return, and no version output, tag, push
\* or release has been made; nothing happens after run has ended.
C6_NoOp ==
    [][/\ (frame = "run" /\ ( \/ (pc = "run.check" /\ Len(conventionals) = 0)
                              \/ (pc = "determineBump.return" /\ bumpKind = SemVerNone)))
            => (pc' = "run.exit" /\ exit' = "returned" /\ NoEffects')
       /\ pc = "run.exit" => UNCHANGED vars]_vars

C6_Witness ==
    /\ frame = "run"
    /\ pc = "run.exit"
    /\ exit = "returned"
    /\ Push
    /\ Len(conventionals) = 2
    /\ bumpKind = SemVerNone
    /\ NoEffects

\* A decimal numeral without a sign or a leading zero.
IsNumeral(x) ==
    /\ x # <<>>
    /\ \A i \in 1..Len(x) : IsDigit(x[i])
    /\ Len(x) > 1 => x[1] # "0"

\* v is of the form vMAJOR.MINOR.PATCH.
IsPlainVersion(v) ==
    /\ HasPrefix(v, <<"v">>)
    /\ Len(Split(Tail(v), ".")) = 3
    /\ \A i \in 1..3 : IsNumeral(Split(Tail(v), ".")[i])

\* <<MAJOR, MINOR, PATCH>> of such a version.
Numbers(v) == [i \in 1..3 |-> DigitsValue(Split(Tail(v), ".")[i])]

\* The order of semantic versions, on versions without pre-release.
SemverLess(a, b) ==
    \/ a[1] < b[1]
    \/ a[1] = b[1] /\ a[2] < b[2]
    \/ a[1] = b[1] /\ a[2] = b[2] /\ a[3] < b[3]

\* C7: from a prior version vM.m.p, Patch gives vM.m.(p+1), Minor vM.(m+1).0 and
\* Major v(M+1).0.0; the string emitted has the form vMAJOR.MINOR.PATCH and is
\* strictly greater than the prior version.
C7_NextVersion ==
    (frame = "run" /\ versionOut # <<>> /\ IsPlainVersion(latestVersion)) =>
        LET old == Numbers(latestVersion) IN
        /\ versionOut = <<nextVersion>>
        /\ IsPlainVersion(nextVersion)
        /\ Numbers(nextVersion) =
              CASE bumpKind = SemVerPatch -> <<old[1], old[2], old[3] + 1>>
                [] bumpKind = SemVerMinor -> <<old[1], old[2] + 1, 0>>
                [] bumpKind = SemVerMajor -> <<old[1] + 1, 0, 0>>
        /\ SemverLess(old, Numbers(nextVersion))

C7_Witness ==
    /\ frame = "run"
    /\ latestVersion = <<"v", "0", ".", "9", ".", "1", "9">>
    /\ bumpKind = SemVerMinor
    /\ versionOut = << <<"v", "0", ".", "1", "0", ".", "0">> >>

\* C17: with a rule value that is not patch, minor or major in any case, run is past
\* its entry only as ended by exit status 1, with no repository opened, no commit
\* read or parsed, determineBump not called and nothing released.
C17_InvalidRuleAborts ==
    (frame = "run" /\ ~ValidRules(Rules) /\ pc # "run.entry")
        => /\ pc = "run.exit"
           /\ exit = "exit1"
           /\ latestVersion = <<>>
           /\ li = 0
           /\ conventionals = <<>>
           /\ commits = <<>>
           /\ BumpEntry
           /\ NoEffects

C17_Witness ==
    /\ frame = "run"
    /\ pc = "run.exit"
    /\ exit = "exit1"
    /\ \E k \in DOMAIN Rules : Rules[k] = str_path
    /\ latestVersion = <<>>

=============================================================================
